---------------------------- MODULE Spec2Model ----------------------------
(***************************************************************************)
(* Per-channel spike detection of spiketoolkit                             *)
(* (spiketoolkit/sortingcomponents/detection.py).                          *)
(*                                                                         *)
(* detect_spikes is the Detection Orchestrator; the function               *)
(* _detect_and_align_peaks_single_channel is the Channel Worker, which     *)
(* holds the Threshold Estimator (lines 115-123), the Event Segmenter      *)
(* (lines 124-130) and the Peak Aligner (lines 132-168).                   *)
(*                                                                         *)
(* Conventions.  A numpy array is a TLA+ sequence; Python indices are      *)
(* 0-based, so element i of an array a is a[i + 1] (operator At).  Sample  *)
(* values are integers.  A real scalar that the code derives by division   *)
(* is kept exact: the threshold comparison is cross-multiplied, a median   *)
(* and a rate are kept as a fraction [num, den], and NaN is 0/0.           *)
(* Upsampling (upsample > 1, scipy's FFT resampling) is outside the model: *)
(* every run has upsample = 1, so lines 151-152 apply.                     *)
(***************************************************************************)
EXTENDS Integers, Sequences, FiniteSets

(***************************************************************************)
(* Bounds of the model.                                                    *)
(***************************************************************************)
\* frames of the recording
NumFrames == 5
\* channels of the recording, ids 0 .. NumChannels - 1
NumChannels == 2
\* largest min_diff_samples tried
MaxMinDiff == 2
\* largest n_pad_ms tried
MaxPadMs == 3
\* largest n_jobs tried
MaxJobs == 2
\* the start_frame values tried by WorkerSpec
StartFrames == {0, 1}

(***************************************************************************)
(* Constants of the program and of the recording.                          *)
(***************************************************************************)
\* 0.6745 = MadScaleNum / MadScaleDen, the MAD-to-sigma constant
MadScaleNum == 6745
MadScaleDen == 10000
\* recording.get_sampling_frequency(), in Hz
SamplingFrequency == 1000
\* the default detect_threshold of detect_spikes
DefaultThreshold == 5
\* Python's None for an integer argument
None == -1

RecChannels == 0 .. (NumChannels - 1)
WorkerIds == 1 .. NumChannels
\* channel_ids = None
NoneIds == <<None>>

(***************************************************************************)
(* numpy helpers                                                           *)
(***************************************************************************)
Abs(x) == IF x < 0 THEN -x ELSE x

Min2(a, b) == IF a < b THEN a ELSE b

Range(s) == {s[i] : i \in DOMAIN s}

\* a[i] for a 0-based index i
At(a, i) == a[i + 1]

\* a[lo:hi] for 0 <= lo, clipped to the array as Python clips a slice
Slice(a, lo, hi) == SubSeq(a, lo + 1, Min2(hi, Len(a)))

\* np.arange(lo, hi)
Arange(lo, hi) == [j \in 1 .. (IF hi > lo THEN hi - lo ELSE 0) |-> lo + j - 1]

\* n zeros, the 'constant' padding of np.pad
Zeros(n) == [j \in 1 .. n |-> 0]

\* np.abs(a)
AbsSeq(a) == [j \in DOMAIN a |-> Abs(a[j])]

\* the k-th smallest element of a (k = 1 .. Len(a))
Kth(a, k) ==
    CHOOSE v \in Range(a) :
        /\ Cardinality({j \in DOMAIN a : a[j] < v}) < k
        /\ Cardinality({j \in DOMAIN a : a[j] <= v}) >= k

\* twice np.median(a) for a non-empty integer array a
Median2(a) ==
    LET n == Len(a) IN
    IF n % 2 = 1 THEN 2 * Kth(a, (n + 1) \div 2)
    ELSE Kth(a, n \div 2) + Kth(a, n \div 2 + 1)

NaN == [num |-> 0, den |-> 0]

\* np.median(a): NaN for an empty array
Median(a) == IF Len(a) = 0 THEN NaN ELSE [num |-> Median2(a), den |-> 2]

\* np.argmin(a), 0-based: the first position of the minimum
ArgMin(a) ==
    (CHOOSE j \in DOMAIN a :
        /\ \A k \in DOMAIN a : a[j] <= a[k]
        /\ \A k \in DOMAIN a : k < j => a[k] > a[j]) - 1

\* np.argmax(a), 0-based: the first position of the maximum
ArgMax(a) ==
    (CHOOSE j \in DOMAIN a :
        /\ \A k \in DOMAIN a : a[j] >= a[k]
        /\ \A k \in DOMAIN a : k < j => a[k] < a[j]) - 1

RECURSIVE SortedSeq(_)
\* the elements of a finite set of integers in ascending order (np.where, np.unique)
SortedSeq(S) ==
    IF S = {} THEN <<>>
    ELSE LET m == CHOOSE x \in S : \A y \in S : x <= y
         IN <<m>> \o SortedSeq(S \ {m})

(***************************************************************************)
(* Threshold Estimator and crossing extraction, lines 115-123              *)
(***************************************************************************)
\* trace[i] < -n_std * median(|trace| / 0.6745), cross-multiplied by 2 * 0.6745
BelowThresh(v, n_std, med2) == v * 2 * MadScaleNum < -(n_std * med2 * MadScaleDen)

\* trace[i] > n_std * median(|trace| / 0.6745)
AboveThresh(v, n_std, med2) == v * 2 * MadScaleNum > n_std * med2 * MadScaleDen

\* idx_spikes: np.where(...)[0]; the median of an empty trace is NaN and no
\* comparison with NaN is true
Crossings(tr, sign, n_std) ==
    IF Len(tr) = 0 THEN <<>>
    ELSE LET med2 == Median2(AbsSeq(tr)) IN
         SortedSeq({i \in 0 .. (Len(tr) - 1) :
             IF sign = -1 THEN BelowThresh(At(tr, i), n_std, med2)
             ELSE IF sign = 1 THEN AboveThresh(At(tr, i), n_std, med2)
             ELSE \/ AboveThresh(At(tr, i), n_std, med2)
                  \/ BelowThresh(At(tr, i), n_std, med2)})

\* np.diff(idx_spikes)
Diff(idx) == [j \in 1 .. (IF Len(idx) > 0 THEN Len(idx) - 1 ELSE 0) |-> idx[j + 1] - idx[j]]

(***************************************************************************)
(* Event Segmenter, lines 128-130                                          *)
(***************************************************************************)
\* the condition of line 129 for loop position i_t over intervals
IsAnchorPos(intervals, it, min_diff) ==
    \/ At(intervals, it) > min_diff
    \/ it = Len(intervals) - 1

\* the positions of idx_spikes (0-based) that the loop of line 128 selects
AnchorPositions(idx, min_diff) ==
    {it \in 0 .. (Len(Diff(idx)) - 1) : IsAnchorPos(Diff(idx), it, min_diff)}

\* the anchors, in loop order
Anchors(idx, min_diff) ==
    LET pos == SortedSeq(AnchorPositions(idx, min_diff))
    IN [j \in DOMAIN pos |-> At(idx, pos[j])]

(***************************************************************************)
(* Peak Aligner, lines 133-161                                             *)
(***************************************************************************)
\* which branch of lines 133-145 an anchor takes; "none" leaves spike and
\* t_spike as the previous iteration left them
WindowCase(idx_spike, n_pad, len) ==
    IF idx_spike - n_pad > 0 /\ idx_spike + n_pad < len THEN "inside"
    ELSE IF idx_spike - n_pad < 0 THEN "left"
    ELSE IF idx_spike + n_pad > len THEN "right"
    ELSE "none"

\* spike of lines 134, 137-138, 142-143
WindowSpike(tr, idx_spike, n_pad) ==
    LET c == WindowCase(idx_spike, n_pad, Len(tr)) IN
    IF c = "inside" THEN Slice(tr, idx_spike - n_pad, idx_spike + n_pad)
    ELSE IF c = "left" THEN
        Zeros(Abs(idx_spike - n_pad)) \o Slice(tr, 0, idx_spike + n_pad)
    ELSE Slice(tr, idx_spike - n_pad, Len(tr)) \o Zeros(idx_spike + n_pad - Len(tr))

\* t_spike of lines 135, 139-140, 144-145
WindowTimes(tr, idx_spike, n_pad) ==
    LET c == WindowCase(idx_spike, n_pad, Len(tr)) IN
    IF c = "inside" THEN Arange(idx_spike - n_pad, idx_spike + n_pad)
    ELSE IF c = "left" THEN
        Zeros(Abs(idx_spike - n_pad)) \o Arange(0, idx_spike + n_pad)
    ELSE Arange(idx_spike - n_pad, Len(tr)) \o Zeros(idx_spike + n_pad - Len(tr))

\* peak_idx of lines 153-161
PeakIdx(spike_up, sign) ==
    IF sign = -1 THEN ArgMin(spike_up)
    ELSE IF sign = 1 THEN ArgMax(spike_up)
    ELSE ArgMax(AbsSeq(spike_up))

\* peak_val of lines 153-161
PeakVal(spike_up, sign) ==
    IF sign = -1 THEN At(spike_up, ArgMin(spike_up))
    ELSE IF sign = 1 THEN At(spike_up, ArgMax(spike_up))
    ELSE At(AbsSeq(spike_up), ArgMax(AbsSeq(spike_up)))


\* the event put in front of the list instead of behind it
PrependEvent(list, x) == <<x>> \o list

\* list.append of lines 164-168 (and 77-79, 86-88)
AppendEvent(list, x) == Append(list, x)

(***************************************************************************)
(* The recording source                                                    *)
(***************************************************************************)
\* the 1000 ms per second of line 46
MsPerSecond == 1000

\* int(n_pad_ms * recording.get_sampling_frequency() / 1000), line 46
PadSamples(pad_ms) == (pad_ms * SamplingFrequency) \div MsPerSecond

\* recording.get_traces(channel_ids=channel, start_frame=..., end_frame=...)
\* squeezed to one dimension, line 114
GetTraces(all_traces, channel, sf, ef) == Slice(all_traces[channel], sf, ef)

\* np.any in the place of np.all: one known channel is enough
ChannelsValidAny(ids) == \E j \in DOMAIN ids : ids[j] \in RecChannels

\* the condition asserted at line 57
ChannelsValid(ids) == \A j \in DOMAIN ids : ids[j] \in RecChannels

\* the request for parallel execution kept although the source is not dumpable
FallbackJobsKept(nj, dump) == nj

\* n_jobs after lines 60-62: a source that is not dumpable switches a
\* parallel request off
FallbackJobs(nj, dump) == IF ~dump /\ nj > 1 THEN 0 ELSE nj

\* rec_arg of lines 64-68
RecArg(dump) == IF dump THEN "dict" ELSE "recording"

\* a worker's exception caught and dropped at the call
PropagatesSwallowed(wstate) == FALSE

\* no try/except surrounds the worker calls of lines 71 and 82: an exception
\* raised in a worker propagates out of detect_spikes
Propagates(wstate) == wstate = "failed"

RECURSIVE Chain(_)
\* list(itertools.chain(*lists)), lines 92-93
Chain(lists) ==
    IF Len(lists) = 0 THEN <<>> ELSE Head(lists) \o Chain(Tail(lists))

\* the elements of times whose label is u, in order (get_unit_spike_train)
RECURSIVE UnitTrain(_, _, _)
UnitTrain(times, labs, u) ==
    IF Len(times) = 0 THEN <<>>
    ELSE (IF Head(labs) = u THEN <<Head(times)>> ELSE <<>>)
         \o UnitTrain(Tail(times), Tail(labs), u)

\* sorting.get_unit_ids() after set_times_labels: the distinct labels in
\* ascending order (np.unique), line 98
UnitIds(labels_flat) == SortedSeq(Range(labels_flat))

\* the 0-based position i_u of unit u in enumerate(sorting.get_unit_ids())
UnitPos(labels_flat, u) ==
    (CHOOSE j \in DOMAIN UnitIds(labels_flat) : UnitIds(labels_flat)[j] = u) - 1

\* len(train) / duration with duration = (end_frame - start_frame) / fs,
\* lines 96 and 101, as a fraction
SpikeRate(n, sf, ef) == [num |-> n * SamplingFrequency, den |-> ef - sf]

\* the units and unit properties of lines 91-101
MakeSorting(times_lists, amp_lists, label_lists, sf, ef) ==
    LET labels_flat == Chain(label_lists)
        times_flat == Chain(times_lists)
    IN [u \in Range(labels_flat) |->
           [channel |-> u,
            spike_amplitude |-> Median(At(amp_lists, UnitPos(labels_flat, u))),
            spike_rate |-> SpikeRate(Len(UnitTrain(times_flat, labels_flat, u)), sf, ef),
            train |-> UnitTrain(times_flat, labels_flat, u)]]

(***************************************************************************)
(* State                                                                   *)
(***************************************************************************)
VARIABLES
    \* the recording source
    traces, dumpable, unreadable,
    \* arguments and locals of detect_spikes
    channel_ids, detect_threshold, n_pad_ms, n_pad_samples, detect_sign,
    min_diff_samples, align, start_frame, end_frame, n_jobs, arg_n_jobs,
    rec_arg, spike_times, spike_amplitudes, labels, sorting,
    \* control of detect_spikes: position, channel loop index, raised error
    pc, i_ch, error,
    \* one Channel Worker per position of channel_ids: position, argument
    \* rec_arg, recording handle in use, raised error, and its locals
    wpc, warg, handle, werr, trace, idx_spikes, i_t, sp_times, sp_amplitudes,
    spike, t_spike, bound

recVars == <<traces, dumpable, unreadable>>
argVars == <<detect_threshold, n_pad_ms, detect_sign, min_diff_samples, align, arg_n_jobs>>
resVars == <<spike_times, spike_amplitudes, labels, sorting>>
wLocals == <<trace, idx_spikes, i_t, sp_times, sp_amplitudes, spike, t_spike, bound>>
wVars == <<wpc, warg, handle, werr, trace, idx_spikes, i_t, sp_times, sp_amplitudes,
           spike, t_spike, bound>>
vars == <<traces, dumpable, unreadable, channel_ids, detect_threshold, n_pad_ms,
          n_pad_samples, detect_sign, min_diff_samples, align, start_frame,
          end_frame, n_jobs, arg_n_jobs, rec_arg, spike_times, spike_amplitudes,
          labels, sorting, pc, i_ch, error, wpc, warg, handle, werr, trace,
          idx_spikes, i_t, sp_times, sp_amplitudes, spike, t_spike, bound>>

\* the positions of channel_ids, one worker each
Workers == 1 .. Len(channel_ids)

\* np.diff(idx_spikes) of worker w, line 124
intervals(w) == Diff(idx_spikes[w])

(***************************************************************************)
(* Channel Worker: _detect_and_align_peaks_single_channel, lines 106-172    *)
(***************************************************************************)
\* a dispatched worker runs while detect_spikes waits for it
Waiting == pc \in {"call", "join"}

\* lines 110-114: take or reconstruct the recording handle and read the trace;
\* get_traces raises for a channel it cannot read
WorkerLoad(w) ==
    /\ Waiting
    /\ w \in Workers
    /\ wpc[w] = "start"
    /\ handle' = [handle EXCEPT ![w] = IF warg[w] = "dict" THEN "reconstructed"
                                       ELSE "original"]
    /\ IF channel_ids[w] \notin RecChannels \/ channel_ids[w] \in unreadable
       THEN /\ wpc' = [wpc EXCEPT ![w] = "failed"]
            /\ werr' = [werr EXCEPT ![w] = "ReadError"]
            /\ UNCHANGED trace
       ELSE /\ wpc' = [wpc EXCEPT ![w] = "detect"]
            /\ trace' = [trace EXCEPT ![w] =
                            GetTraces(traces, channel_ids[w], start_frame, end_frame)]
            /\ UNCHANGED werr
    /\ UNCHANGED <<recVars, argVars, resVars, channel_ids, n_pad_samples,
                   start_frame, end_frame, n_jobs, rec_arg, pc, i_ch, error,
                   warg, idx_spikes, i_t, sp_times, sp_amplitudes, spike,
                   t_spike, bound>>

\* lines 115-126: threshold, crossing indices, empty result lists
WorkerDetect(w) ==
    /\ Waiting
    /\ w \in Workers
    /\ wpc[w] = "detect"
    /\ idx_spikes' = [idx_spikes EXCEPT ![w] =
                         Crossings(trace[w], detect_sign, detect_threshold)]
    /\ i_t' = [i_t EXCEPT ![w] = 0]
    /\ sp_times' = [sp_times EXCEPT ![w] = <<>>]
    /\ sp_amplitudes' = [sp_amplitudes EXCEPT ![w] = <<>>]
    /\ wpc' = [wpc EXCEPT ![w] = "loop"]
    /\ UNCHANGED <<recVars, argVars, resVars, channel_ids, n_pad_samples,
                   start_frame, end_frame, n_jobs, rec_arg, pc, i_ch, error,
                   warg, handle, werr, trace, spike, t_spike, bound>>

\* lines 128-168: one iteration of the loop over intervals.  spike and
\* t_spike are function locals: an iteration that takes none of the branches
\* of lines 133-145 reads what an earlier iteration left, and raises
\* UnboundLocalError at line 151 when there was none
WorkerIter(w) ==
    /\ Waiting
    /\ w \in Workers
    /\ wpc[w] = "loop"
    /\ i_t[w] < Len(intervals(w))
    /\ LET idx_spike == At(idx_spikes[w], i_t[w])
           c == WindowCase(idx_spike, n_pad_samples, Len(trace[w]))
           new_spike == IF c = "none" THEN spike[w]
                        ELSE WindowSpike(trace[w], idx_spike, n_pad_samples)
           new_t_spike == IF c = "none" THEN t_spike[w]
                          ELSE WindowTimes(trace[w], idx_spike, n_pad_samples)
           new_bound == bound[w] \/ c # "none"
       IN
       IF ~IsAnchorPos(intervals(w), i_t[w], min_diff_samples)
       THEN /\ i_t' = [i_t EXCEPT ![w] = @ + 1]
            /\ UNCHANGED <<wpc, werr, sp_times, sp_amplitudes, spike, t_spike, bound>>
       ELSE IF ~align
       THEN /\ sp_times' = [sp_times EXCEPT ![w] = AppendEvent(@, idx_spike)]
            /\ sp_amplitudes' = [sp_amplitudes EXCEPT ![w] =
                                    AppendEvent(@, At(trace[w], idx_spike))]
            /\ i_t' = [i_t EXCEPT ![w] = @ + 1]
            /\ UNCHANGED <<wpc, werr, spike, t_spike, bound>>
       ELSE IF ~new_bound
       THEN /\ wpc' = [wpc EXCEPT ![w] = "failed"]
            /\ werr' = [werr EXCEPT ![w] = "UnboundLocalError"]
            /\ UNCHANGED <<i_t, sp_times, sp_amplitudes, spike, t_spike, bound>>
       ELSE /\ spike' = [spike EXCEPT ![w] = new_spike]
            /\ t_spike' = [t_spike EXCEPT ![w] = new_t_spike]
            /\ bound' = [bound EXCEPT ![w] = TRUE]
            /\ sp_times' = [sp_times EXCEPT ![w] =
                   AppendEvent(@, At(new_t_spike, PeakIdx(new_spike, detect_sign)))]
            /\ sp_amplitudes' = [sp_amplitudes EXCEPT ![w] =
                   AppendEvent(@, PeakVal(new_spike, detect_sign))]
            /\ i_t' = [i_t EXCEPT ![w] = @ + 1]
            /\ UNCHANGED <<wpc, werr>>
    /\ UNCHANGED <<recVars, argVars, resVars, channel_ids, n_pad_samples,
                   start_frame, end_frame, n_jobs, rec_arg, pc, i_ch, error,
                   warg, handle, trace, idx_spikes>>

\* lines 170-172: the loop is over, the worker returns its three lists
WorkerReturn(w) ==
    /\ Waiting
    /\ w \in Workers
    /\ wpc[w] = "loop"
    /\ i_t[w] = Len(intervals(w))
    /\ wpc' = [wpc EXCEPT ![w] = "done"]
    /\ UNCHANGED <<recVars, argVars, resVars, channel_ids, n_pad_samples,
                   start_frame, end_frame, n_jobs, rec_arg, pc, i_ch, error,
                   warg, handle, werr, wLocals>>

\* labels of line 170
WorkerLabels(w) == [j \in 1 .. Len(sp_times[w]) |-> channel_ids[w]]

(***************************************************************************)
(* Detection Orchestrator: detect_spikes, lines 43-103                     *)
(***************************************************************************)
\* lines 43-58: pad width, default frame range, channel set and its validation
Resolve ==
    /\ pc = "resolve"
    /\ n_pad_samples' = PadSamples(n_pad_ms)
    /\ start_frame' = IF start_frame = None THEN 0 ELSE start_frame
    /\ end_frame' = IF end_frame = None THEN NumFrames ELSE end_frame
    /\ IF channel_ids = NoneIds
       THEN /\ channel_ids' = SortedSeq(RecChannels)
            /\ pc' = "strategy"
            /\ UNCHANGED error
       ELSE IF ChannelsValid(channel_ids)
       THEN /\ pc' = "strategy"
            /\ UNCHANGED <<channel_ids, error>>
       ELSE /\ pc' = "failed"
            /\ error' = "AssertionError"
            /\ UNCHANGED channel_ids
    /\ UNCHANGED <<recVars, argVars, resVars, n_jobs, rec_arg, i_ch, wVars>>

\* lines 60-68: the execution strategy
Strategy ==
    /\ pc = "strategy"
    /\ n_jobs' = FallbackJobs(n_jobs, dumpable)
    /\ rec_arg' = RecArg(dumpable)
    /\ pc' = "dispatch"
    /\ UNCHANGED <<recVars, argVars, resVars, channel_ids, n_pad_samples,
                   start_frame, end_frame, i_ch, error, wVars>>

\* lines 70-75: Parallel(...) starts one worker per channel on rec_arg
DispatchParallel ==
    /\ pc = "dispatch"
    /\ n_jobs > 1
    /\ wpc' = [w \in WorkerIds |-> IF w \in Workers THEN "start" ELSE wpc[w]]
    /\ warg' = [w \in WorkerIds |-> IF w \in Workers THEN rec_arg ELSE warg[w]]
    /\ pc' = "join"
    /\ UNCHANGED <<recVars, argVars, resVars, channel_ids, n_pad_samples,
                   start_frame, end_frame, n_jobs, rec_arg, i_ch, error,
                   handle, werr, wLocals>>

\* lines 76-79: every worker has returned; collect the outputs in order
JoinParallel ==
    /\ pc = "join"
    /\ \A w \in Workers : wpc[w] \in {"done", "failed"} /\ ~Propagates(wpc[w])
    /\ spike_times' = [w \in Workers |-> sp_times[w]]
    /\ spike_amplitudes' = [w \in Workers |-> sp_amplitudes[w]]
    /\ labels' = [w \in Workers |-> WorkerLabels(w)]
    /\ pc' = "aggregate"
    /\ UNCHANGED <<recVars, argVars, sorting, channel_ids, n_pad_samples,
                   start_frame, end_frame, n_jobs, rec_arg, i_ch, error, wVars>>

\* line 71: a worker raised; Parallel aborts the others and re-raises
AbortParallel ==
    /\ pc = "join"
    /\ \E w \in Workers : Propagates(wpc[w])
    /\ pc' = "failed"
    /\ error' = "WorkerError"
    /\ UNCHANGED <<recVars, argVars, resVars, channel_ids, n_pad_samples,
                   start_frame, end_frame, n_jobs, rec_arg, i_ch, wVars>>

\* lines 81-82: the sequential loop calls the worker of the next channel on
\* the recording itself
SeqCall ==
    /\ pc = "dispatch"
    /\ n_jobs <= 1
    /\ i_ch <= Len(channel_ids)
    /\ wpc' = [wpc EXCEPT ![i_ch] = "start"]
    /\ warg' = [warg EXCEPT ![i_ch] = "recording"]
    /\ pc' = "call"
    /\ UNCHANGED <<recVars, argVars, resVars, channel_ids, n_pad_samples,
                   start_frame, end_frame, n_jobs, rec_arg, i_ch, error,
                   handle, werr, wLocals>>

\* lines 86-88: the call returned; append its lists and go on
SeqCollect ==
    /\ pc = "call"
    /\ wpc[i_ch] \in {"done", "failed"}
    /\ ~Propagates(wpc[i_ch])
    /\ spike_times' = AppendEvent(spike_times, sp_times[i_ch])
    /\ spike_amplitudes' = AppendEvent(spike_amplitudes, sp_amplitudes[i_ch])
    /\ labels' = AppendEvent(labels, WorkerLabels(i_ch))
    /\ i_ch' = i_ch + 1
    /\ pc' = IF i_ch = Len(channel_ids) THEN "aggregate" ELSE "dispatch"
    /\ UNCHANGED <<recVars, argVars, sorting, channel_ids, n_pad_samples,
                   start_frame, end_frame, n_jobs, rec_arg, error, wVars>>

\* line 82: the call raised; the exception leaves detect_spikes
SeqRaise ==
    /\ pc = "call"
    /\ Propagates(wpc[i_ch])
    /\ pc' = "failed"
    /\ error' = "WorkerError"
    /\ UNCHANGED <<recVars, argVars, resVars, channel_ids, n_pad_samples,
                   start_frame, end_frame, n_jobs, rec_arg, i_ch, wVars>>

\* lines 91-103: build the sorting and attach the unit properties
Aggregate ==
    /\ pc = "aggregate"
    /\ sorting' = MakeSorting(spike_times, spike_amplitudes, labels,
                              start_frame, end_frame)
    /\ pc' = "done"
    /\ UNCHANGED <<recVars, argVars, spike_times, spike_amplitudes, labels,
                   channel_ids, n_pad_samples, start_frame, end_frame, n_jobs,
                   rec_arg, i_ch, error, wVars>>

(***************************************************************************)
(* Inputs                                                                  *)
(***************************************************************************)
\* sample values of the traces tried by WorkerSpec
Amplitudes == {-1, 0, 1}

\* a trace of the recording that is v at the frames of S and 0 elsewhere
TraceWith(S, v) == [j \in 1 .. NumFrames |-> IF (j - 1) \in S THEN v ELSE 0]

\* the traces tried by Spec: a silent one, one with an event in the middle,
\* one with an event next to the start
TraceFamily == {TraceWith({}, 0), TraceWith({2, 4}, -3), TraceWith({1, 3}, -5)}

\* requested channel lists: no repetition, ids 0 .. NumChannels, the last of
\* which is no channel of the recording
RequestLists ==
    {ids \in UNION {[1 .. n -> 0 .. NumChannels] : n \in 1 .. NumChannels} :
        \A j, k \in DOMAIN ids : j # k => ids[j] # ids[k]}

\* the locals of the workers before any worker ran
WorkersIdle ==
    /\ wpc = [w \in WorkerIds |-> "idle"]
    /\ warg = [w \in WorkerIds |-> "none"]
    /\ handle = [w \in WorkerIds |-> "none"]
    /\ werr = [w \in WorkerIds |-> "none"]
    /\ trace = [w \in WorkerIds |-> <<>>]
    /\ idx_spikes = [w \in WorkerIds |-> <<>>]
    /\ i_t = [w \in WorkerIds |-> 0]
    /\ sp_times = [w \in WorkerIds |-> <<>>]
    /\ sp_amplitudes = [w \in WorkerIds |-> <<>>]
    /\ spike = [w \in WorkerIds |-> <<>>]
    /\ t_spike = [w \in WorkerIds |-> <<>>]
    /\ bound = [w \in WorkerIds |-> FALSE]

\* a call of detect_spikes on a recording of NumChannels channels
Init ==
    /\ traces \in [RecChannels -> TraceFamily]
    /\ dumpable \in BOOLEAN
    /\ unreadable \in {{}} \cup {{c} : c \in RecChannels}
    /\ channel_ids \in RequestLists \cup {NoneIds}
    /\ detect_threshold = DefaultThreshold
    /\ n_pad_ms = 1
    /\ n_pad_samples = 0
    /\ detect_sign = -1
    /\ min_diff_samples = MaxMinDiff
    /\ align \in BOOLEAN
    /\ start_frame = None
    /\ end_frame = None
    /\ n_jobs \in {1, MaxJobs}
    /\ arg_n_jobs = n_jobs
    /\ rec_arg = "none"
    /\ spike_times = <<>>
    /\ spike_amplitudes = <<>>
    /\ labels = <<>>
    /\ sorting = <<>>
    /\ pc = "resolve"
    /\ i_ch = 1
    /\ error = "none"
    /\ WorkersIdle

Next ==
    \/ Resolve
    \/ Strategy
    \/ DispatchParallel
    \/ JoinParallel
    \/ AbortParallel
    \/ SeqCall
    \/ SeqCollect
    \/ SeqRaise
    \/ Aggregate
    \/ \E w \in WorkerIds : WorkerLoad(w)
    \/ \E w \in WorkerIds : WorkerDetect(w)
    \/ \E w \in WorkerIds : WorkerIter(w)
    \/ \E w \in WorkerIds : WorkerReturn(w)

Spec == Init /\ [][Next]_vars

\* one Channel Worker, called by the sequential loop of detect_spikes
\* (line 82) on channel 0, for every trace over Amplitudes and every
\* parameter setting within the bounds
WorkerInit ==
    /\ \E tr \in [1 .. NumFrames -> Amplitudes] :
           traces = [c \in RecChannels |-> IF c = 0 THEN tr ELSE Zeros(NumFrames)]
    /\ dumpable = FALSE
    /\ unreadable = {}
    /\ channel_ids = <<0>>
    /\ detect_threshold \in {0, DefaultThreshold}
    /\ n_pad_ms \in 1 .. MaxPadMs
    /\ n_pad_samples = PadSamples(n_pad_ms)
    /\ detect_sign \in {-1, 0, 1}
    /\ min_diff_samples \in 0 .. MaxMinDiff
    /\ align \in BOOLEAN
    /\ start_frame \in StartFrames
    /\ end_frame = NumFrames
    /\ n_jobs = 1
    /\ arg_n_jobs = 1
    /\ rec_arg = "recording"
    /\ spike_times = <<>>
    /\ spike_amplitudes = <<>>
    /\ labels = <<>>
    /\ sorting = <<>>
    /\ pc = "call"
    /\ i_ch = 1
    /\ error = "none"
    /\ wpc = [w \in WorkerIds |-> IF w = 1 THEN "start" ELSE "idle"]
    /\ warg = [w \in WorkerIds |-> IF w = 1 THEN "recording" ELSE "none"]
    /\ handle = [w \in WorkerIds |-> "none"]
    /\ werr = [w \in WorkerIds |-> "none"]
    /\ trace = [w \in WorkerIds |-> <<>>]
    /\ idx_spikes = [w \in WorkerIds |-> <<>>]
    /\ i_t = [w \in WorkerIds |-> 0]
    /\ sp_times = [w \in WorkerIds |-> <<>>]
    /\ sp_amplitudes = [w \in WorkerIds |-> <<>>]
    /\ spike = [w \in WorkerIds |-> <<>>]
    /\ t_spike = [w \in WorkerIds |-> <<>>]
    /\ bound = [w \in WorkerIds |-> FALSE]

WorkerNext ==
    \/ \E w \in WorkerIds : WorkerLoad(w)
    \/ \E w \in WorkerIds : WorkerDetect(w)
    \/ \E w \in WorkerIds : WorkerIter(w)
    \/ \E w \in WorkerIds : WorkerReturn(w)

WorkerSpec == WorkerInit /\ [][WorkerNext]_vars

(***************************************************************************)
(* Properties                                                              *)
(***************************************************************************)
StrictlyIncreasing(s) == \A j \in 1 .. (Len(s) - 1) : s[j] < s[j + 1]

NonDecreasing(s) == \A j \in 1 .. (Len(s) - 1) : s[j] <= s[j + 1]

\* a worker that is between its dispatch and its return
Running(w) == wpc[w] \in {"start", "detect", "loop"}

\* the crossings are single samples, pairwise more than min_diff (and more
\* than one sample) apart
IsolatedExcursions(idx, min_diff) ==
    /\ Len(idx) >= 1
    /\ \A j \in 1 .. (Len(idx) - 1) : idx[j + 1] - idx[j] > min_diff /\ idx[j + 1] - idx[j] > 1

\* the crossings form exactly two runs of consecutive samples, and the index
\* difference across the one gap is at most min_diff
TwoMergedExcursions(idx, min_diff) ==
    /\ Len(idx) >= 2
    /\ Cardinality({j \in 1 .. (Len(idx) - 1) : idx[j + 1] - idx[j] > 1}) = 1
    /\ \A j \in 1 .. (Len(idx) - 1) : idx[j + 1] - idx[j] <= min_diff

\* the anchors the segmenter is said to select: a crossing whose gap to the
\* next crossing exceeds min_diff, and the last crossing
StatedAnchors(idx, min_diff) ==
    LET pos == SortedSeq({i \in 0 .. (Len(idx) - 1) :
                   \/ i = Len(idx) - 1
                   \/ At(idx, i + 1) - At(idx, i) > min_diff})
    IN [j \in DOMAIN pos |-> At(idx, pos[j])]

\* C1: on the whole recording with align = true, a trace of isolated
\* single-sample excursions more than min_diff_samples apart yields one event
\* per excursion, each within n_pad_samples of its excursion.
C1_OneEventPerExcursion ==
    \A w \in WorkerIds :
        (/\ wpc[w] = "done"
         /\ align
         /\ start_frame = 0
         /\ IsolatedExcursions(idx_spikes[w], min_diff_samples))
        => /\ Len(sp_times[w]) = Len(idx_spikes[w])
           /\ \A j \in DOMAIN sp_times[w] :
                  Abs(sp_times[w][j] - idx_spikes[w][j]) <= n_pad_samples

\* the amplitudes of the events detected on channel u
ChannelAmplitudes(u) ==
    Chain([j \in 1 .. Len(channel_ids) |->
              IF channel_ids[j] = u THEN sp_amplitudes[j] ELSE <<>>])

\* C2: every unit of the returned sorting carries the median amplitude and the
\* rate of the events detected on its own channel.
C2_UnitStatistics ==
    pc = "done" =>
        \A u \in DOMAIN sorting :
            /\ sorting[u].spike_amplitude = Median(ChannelAmplitudes(u))
            /\ sorting[u].spike_rate =
                   SpikeRate(Len(ChannelAmplitudes(u)), start_frame, end_frame)

\* C3: aligned detection never raises, and every window it builds, with its
\* time axis, has exactly 2 * n_pad_samples samples.
C3_BoundaryWindow ==
    \A w \in WorkerIds :
        /\ werr[w] # "UnboundLocalError"
        /\ bound[w] => /\ Len(spike[w]) = 2 * n_pad_samples
                       /\ Len(t_spike[w]) = 2 * n_pad_samples

\* C4 as stated: the event times a worker returns are strictly increasing,
\* with and without alignment.
C4_StrictlyIncreasing ==
    \A w \in WorkerIds : wpc[w] = "done" => StrictlyIncreasing(sp_times[w])

\* C4 as amended: without alignment the returned event times are strictly
\* increasing; with alignment (upsample = 1) they never decrease, but
\* neighbouring events may carry the same time.
C4_IncreasingUnlessAligned ==
    \A w \in WorkerIds :
        wpc[w] = "done" =>
            IF align THEN NonDecreasing(sp_times[w])
            ELSE StrictlyIncreasing(sp_times[w])

\* a worker returned at least two events without alignment
C4_Witness ==
    \E w \in WorkerIds : wpc[w] = "done" /\ ~align /\ Len(sp_times[w]) >= 2

\* C5: with start_frame > 0 every returned time is a frame of
\* [start_frame, end_frame) on the axis of the recording, and without
\* alignment it is the recording frame of the anchor sample.
C5_GlobalFrameAxis ==
    \A w \in WorkerIds :
        (wpc[w] = "done" /\ start_frame > 0) =>
            /\ \A j \in DOMAIN sp_times[w] :
                   start_frame <= sp_times[w][j] /\ sp_times[w][j] < end_frame
            /\ ~align =>
                   sp_times[w] =
                       [j \in DOMAIN Anchors(idx_spikes[w], min_diff_samples) |->
                           start_frame + Anchors(idx_spikes[w], min_diff_samples)[j]]

\* C6: workers are dispatched on the serialized descriptor exactly when
\* n_jobs > 1 was requested of a dumpable source, and only then do workers run
\* concurrently, each on a reconstructed handle; otherwise they run one at a
\* time, and a source that is not dumpable never makes the run fail.
C6_DispatchPolicy ==
    /\ \A w \in WorkerIds :
           /\ warg[w] = "dict" => arg_n_jobs > 1 /\ dumpable
           /\ warg[w] = "recording" => ~(arg_n_jobs > 1 /\ dumpable)
           /\ warg[w] = "dict" => handle[w] \in {"none", "reconstructed"}
    /\ \A v, w \in WorkerIds :
           (v # w /\ Running(v) /\ Running(w)) =>
               /\ arg_n_jobs > 1 /\ dumpable
               /\ handle[v] # "original" /\ handle[w] # "original"
    /\ pc = "join" => arg_n_jobs > 1 /\ dumpable
    /\ pc = "call" => ~(arg_n_jobs > 1 /\ dumpable)
    /\ (pc = "failed" /\ ~dumpable /\ arg_n_jobs > 1) =>
           \/ error = "AssertionError"
           \/ error = "WorkerError" /\ \E w \in Workers : wpc[w] = "failed"

\* two workers run at once, both on reconstructed handles
C6_Witness ==
    /\ pc = "join"
    /\ \E v, w \in Workers :
           /\ v # w
           /\ wpc[v] = "loop" /\ wpc[w] = "loop"
           /\ handle[v] = "reconstructed" /\ handle[w] = "reconstructed"

\* C7: a request that names a channel the recording does not have fails at
\* validation: no worker is ever started and no trace is read.
C7_ValidationBeforeDispatch ==
    (channel_ids # NoneIds /\ \E j \in DOMAIN channel_ids : channel_ids[j] \notin RecChannels)
    => /\ pc \in {"resolve", "failed"}
       /\ pc = "failed" => error = "AssertionError"
       /\ \A w \in WorkerIds :
              wpc[w] = "idle" /\ handle[w] = "none" /\ trace[w] = <<>>

\* a parallel request on a dumpable source was rejected at validation
C7_Witness ==
    /\ pc = "failed"
    /\ error = "AssertionError"
    /\ arg_n_jobs > 1
    /\ dumpable
    /\ \E j \in DOMAIN channel_ids : channel_ids[j] \in RecChannels

\* detect_spikes ended after its validation passed
Ended == pc \in {"done", "failed"} /\ error # "AssertionError"

\* C8 as stated: a worker failure is local to its channel: every other
\* worker still runs to its end, and detect_spikes fails only when every
\* channel failed, returning the events of the channels that succeeded.
C8_FailureIsLocal ==
    Ended =>
        /\ \A w \in Workers : wpc[w] \in {"done", "failed"}
        /\ pc = "failed" <=> \A w \in Workers : wpc[w] = "failed"
        /\ pc = "done" =>
               \A w \in Workers :
                   wpc[w] = "done" /\ Len(sp_times[w]) > 0
                   => /\ channel_ids[w] \in DOMAIN sorting
                      /\ sorting[channel_ids[w]].train = sp_times[w]

\* C8 as amended: a worker failure makes detect_spikes fail as a whole: once
\* the failure has propagated no sorting is returned, whatever the other
\* channels produced, and in the sequential loop the channels after the
\* failing one are never processed; a sorting is returned only when every
\* worker returned.
C8_FailureAborts ==
    /\ ((\E w \in Workers : wpc[w] = "failed") /\ ~Waiting) =>
           /\ pc = "failed"
           /\ error = "WorkerError"
           /\ sorting = <<>>
           /\ arg_n_jobs <= 1 => \A w \in Workers : w > i_ch => wpc[w] = "idle"
    /\ pc \in {"aggregate", "done"} => \A w \in Workers : wpc[w] = "done"

\* detect_spikes failed although one of its channels had succeeded
C8_Witness ==
    /\ pc = "failed"
    /\ error = "WorkerError"
    /\ \E w \in Workers : wpc[w] = "done" /\ Len(sp_times[w]) > 0

\* C9: a trace whose crossings form two excursions at most min_diff_samples
\* apart makes the worker return exactly one event.
C9_RunMerging ==
    \A w \in WorkerIds :
        (/\ wpc[w] \in {"done", "failed"}
         /\ werr[w] # "ReadError"
         /\ TwoMergedExcursions(idx_spikes[w], min_diff_samples))
        => wpc[w] = "done" /\ Len(sp_times[w]) = 1

\* C10: the anchors are the crossings followed by a gap above
\* min_diff_samples, and the last crossing (seen without alignment, where
\* the returned times are the anchors).
C10_SegmenterRule ==
    \A w \in WorkerIds :
        (wpc[w] = "done" /\ ~align) =>
            sp_times[w] = StatedAnchors(idx_spikes[w], min_diff_samples)

=============================================================================
